---- MODULE Spec2Model ----
(***************************************************************************)
(* TAXII client and feed refresh of BedeschiL/Taxii_client.                *)
(*                                                                         *)
(* src/taxii_client.py  TAXIIClient._get_collection_id_by_title,           *)
(*                      TAXIIClient.get_indicators                         *)
(* src/app.py           add_feed, delete_feed, refresh_feeds and the       *)
(*                      load_/save_ helpers of the two JSON files          *)
(*                                                                         *)
(* One action is one HTTP request of the client together with all the      *)
(* code that runs until the next request is issued (or until the handler   *)
(* returns).  The reply of the TAXII server is the input of such a step.   *)
(* The route handlers add_feed and delete_feed are single actions.         *)
(***************************************************************************)
EXTENDS Integers, Sequences, FiniteSets, TLC

(***************************************************************************)
(* Bounds of the model.                                                    *)
(***************************************************************************)
MaxFeeds == 3
MaxRefreshed == 2
MaxPages == 2
MaxItems == 2
MaxColl  == 2

(***************************************************************************)
(* Python values.  None stands for a missing string, PyNone for a missing  *)
(* list or dict.                                                           *)
(***************************************************************************)
None == "None"
PyNone == [tag |-> "None"]

\* Exceptions that leave a function; NoExc when it returned normally.
NoExc == "none"
UnboundLocalError == "UnboundLocalError"

(***************************************************************************)
(* JSON values as the code tells them apart: isinstance(v, list) against   *)
(* a decoded object (dict).                                                *)
(***************************************************************************)
JList(s) == [tag |-> "list", elems |-> s]
JObj(o)  == [tag |-> "dict", obj |-> o]
IsList(v) == v.tag = "list"

\* dict.get(key, default)
Get(d, key, default) == IF key \in DOMAIN d THEN d[key] ELSE default

(***************************************************************************)
(* STIX items a server can put on a page.  wf is FALSE for an item that    *)
(* stix2.parse rejects.                                                    *)
(***************************************************************************)
Ind(i) == [type |-> "indicator", id |-> i, wf |-> TRUE]
Other  == [type |-> "malware", id |-> "m1", wf |-> TRUE]
Bad    == [type |-> "indicator", id |-> "bad", wf |-> FALSE]
BundleOf(objs) == [type |-> "bundle", id |-> "b1", wf |-> TRUE, objects |-> objs]

Items == {Ind("i1"), Ind("i2"), Other, Bad, BundleOf(<<Other, Ind("i3")>>)}

SeqsUpTo(S, n) == UNION {[1..k -> S] : k \in 0..n}

(***************************************************************************)
(* Feed forms and the two persisted files.                                 *)
(***************************************************************************)
FeedNames == {"A", "B"}
Titles == {"T", "t"}
CollIds == {"c1", "c2"}

\* str.rstrip('/') on a string given as a sequence of characters
RECURSIVE RStripSlash(_)
RStripSlash(s) ==
  IF s # <<>> /\ s[Len(s)] = "/" THEN RStripSlash(SubSeq(s, 1, Len(s) - 1)) ELSE s

UrlInputs == {<<>>, <<"u">>, <<"u", "/">>}
TitleInputs == {"", "T"}
NameInputs == FeedNames \cup {None}

\* A record left in indicators.json by an earlier run of the application.
StaleRecord ==
  [id |-> "old", type |-> "indicator", source |-> "T", feed_source |-> "A"]

VARIABLES
  feeds,                  \* taxii_feeds.json: the persisted feed list
  store,                  \* indicators.json: the persisted indicator list
  pc,                     \* "idle" | "resolve" | "paging" : position of refresh_feeds
  r_feeds,                \* refresh_feeds: feeds (loaded once)
  r_idx,                  \* refresh_feeds: position of the for loop, 1-based
  all_indicators,         \* refresh_feeds: all_indicators
  errors,                 \* refresh_feeds: errors
  result,                 \* the JSON answer of the last refresh_feeds, None before
  collection_id,          \* get_indicators: collection_id
  page,                   \* get_indicators: page
  more,                   \* get_indicators: more
  simple_indicators,      \* get_indicators: the parameter simple_indicators
  all_simple_indicators,  \* get_indicators: all_simple_indicators
  reply,                  \* the server's reply to the last request, None before
  iterated,               \* the items the for loop ran over on the last page
  requests,               \* requests issued by the current get_indicators call
  raised,                 \* exception that left the last client call, NoExc if none
  returned,               \* value the last finished get_indicators call returned
  served,                 \* history: indicators on the pages received in this call
  expected,               \* history: records of the feeds finished in this refresh
  failed,                 \* history: feeds of this refresh with a failed request
  last_call,              \* history: the handler that ran last, with its input
  fetched,                \* history: feeds this refresh has called the client for
  written,                \* history: indicators.json as it was last written
  written_before,         \* history: what the refresh before the last one wrote
  upstream,               \* the replies of a server that answers the same each time
  n_in,                   \* the STIX object handed to the record formatting
  n_out                   \* the timestamp fields formatted from n_in

vars == <<feeds, store, pc, r_feeds, r_idx, all_indicators, errors, result,
          collection_id, page, more, simple_indicators, all_simple_indicators,
          reply, iterated, requests, raised, returned, served, expected,
          failed, last_call, fetched, written, written_before, upstream,
          n_in, n_out>>

clientVars == <<collection_id, page, more, simple_indicators,
                all_simple_indicators, reply, iterated, requests, raised,
                returned, served>>
refreshVars == <<pc, r_feeds, r_idx, all_indicators, errors, result, expected,
                 failed>>
historyVars == <<written, written_before>>
fixedVars == <<upstream, n_in, n_out>>

(***************************************************************************)
(* Replies of the collections endpoint.                                    *)
(*   neterr       requests.get raises (connection refused, timeout)        *)
(*   http_err     raise_for_status raises HTTPError                        *)
(*   undecodable  response.json() raises a JSON decode error               *)
(*   ok           the body decodes to the JSON value body                  *)
(***************************************************************************)
Descriptors == [title : Titles, id : CollIds]
ListingBodies(n) ==
  {JList(s) : s \in SeqsUpTo(Descriptors, n)} \cup {JObj([error |-> "x"])}
ListingRepliesOf(n) ==
  {[kind |-> k] : k \in {"neterr", "http_err", "undecodable"}}
    \cup {[kind |-> "ok", body |-> b] : b \in ListingBodies(n)}
ListingReplies == ListingRepliesOf(MaxColl)

\* The for loop of lines 36-38: first descriptor with an equal title.
RECURSIVE FirstMatch(_, _)
FirstMatchLast(colls, title) ==
  LET hits == {i \in 1..Len(colls) : Get(colls[i], "title", None) = title}
  IN IF hits = {} THEN None
     ELSE Get(colls[CHOOSE i \in hits : \A j \in hits : j <= i], "id", None)
FirstMatch(colls, title) ==
  IF colls = <<>> THEN None
  ELSE IF Get(Head(colls), "title", None) = title
         THEN Get(Head(colls), "id", None)
         ELSE FirstMatch(Tail(colls), title)

\* TAXIIClient._get_collection_id_by_title: [ret, exc] for one reply.
\* A network failure leaves the local `response` unbound, so the
\* response.json() of the handler (line 50) raises UnboundLocalError, which
\* the inner except (JSONDecodeError, AttributeError) does not catch.
get_collection_id_by_title_unguarded(api_root_url, title, r) ==
  IF api_root_url = <<>> THEN [ret |-> None, exc |-> NoExc]
  ELSE IF r.kind \in {"neterr", "http_err"}
         THEN [ret |-> None, exc |-> UnboundLocalError]
  ELSE IF r.kind = "undecodable" THEN [ret |-> None, exc |-> NoExc]
  ELSE IF IsList(r.body) THEN [ret |-> FirstMatch(r.body.elems, title), exc |-> NoExc]
  ELSE [ret |-> None, exc |-> NoExc]
get_collection_id_by_title(api_root_url, title, r) ==
  IF api_root_url = <<>> THEN [ret |-> None, exc |-> NoExc]
  ELSE IF r.kind = "neterr" THEN [ret |-> None, exc |-> UnboundLocalError]
  ELSE IF r.kind \in {"http_err", "undecodable"} THEN [ret |-> None, exc |-> NoExc]
  ELSE IF IsList(r.body) THEN [ret |-> FirstMatch(r.body.elems, title), exc |-> NoExc]
  ELSE [ret |-> None, exc |-> NoExc]

\* Line 108, `not collection_id`: None and the empty string are falsy.
FalsyNever(v) == FALSE
Falsy(v) == v \in {None, ""}

(***************************************************************************)
(* Replies of the objects endpoint.  An ok reply carries the decoded       *)
(* envelope; items and shape record how the server laid the page out:      *)
(*   flat      objects = [i1, i2, ...]                                     *)
(*   wrapAll   objects = [[i1, i2, ...]]                                   *)
(*   wrapEach  objects = [[i1], [i2], ...]                                 *)
(* The envelope may lack the more field.  bad_shape is a body that decodes *)
(* to a JSON list instead of an envelope.                                  *)
(***************************************************************************)
Shapes == {"flat", "wrapAll", "wrapEach"}

Encode(items, shape) ==
  CASE shape = "flat"     -> [i \in 1..Len(items) |-> JObj(items[i])]
    [] shape = "wrapAll"  -> <<JList([i \in 1..Len(items) |-> JObj(items[i])])>>
    [] shape = "wrapEach" -> [i \in 1..Len(items) |-> JList(<<JObj(items[i])>>)]

Envelopes(items, shape) ==
  {[more |-> m, objects |-> Encode(items, shape)] : m \in BOOLEAN}
    \cup {[objects |-> Encode(items, shape)]}

PageRepliesOf(itemSeqs, shapes) ==
  {[kind |-> k] : k \in {"neterr", "http_err", "undecodable", "bad_shape"}}
    \cup UNION {UNION {{[kind |-> "ok", envelope |-> e, items |-> its, shape |-> sh]
                          : e \in Envelopes(its, sh)} : sh \in shapes}
                 : its \in itemSeqs}
    \cup {[kind |-> "ok", envelope |-> [more |-> TRUE], items |-> <<>>,
           shape |-> "flat"]}

PageReplies == PageRepliesOf(SeqsUpTo(Items, MaxItems), Shapes)
LaterPageReplies == PageRepliesOf(SeqsUpTo(Items, 1), Shapes)

\* Lines 129-134: the objects of the envelope, the first element taken in
\* place of the whole sequence when that element is a list.
UnwrapNever(envelope) == Get(envelope, "objects", <<>>)
Unwrap(envelope) ==
  LET objs == Get(envelope, "objects", <<>>)
  IN IF objs # <<>> /\ IsList(objs[1]) THEN objs[1].elems ELSE objs

\* stix2.parse(item, allow_custom=True): PyNone when it raises.
Parse(v) ==
  IF IsList(v) THEN PyNone
  ELSE IF ~v.obj.wf THEN PyNone
  ELSE [tag |-> "stix", obj |-> v.obj]

\* Lines 149-157: the indicators of a parsed item.
IndicatorsInItem(o) ==
  IF o.type = "bundle"
    THEN SelectSeq(o.objects, LAMBDA x : x.type = "indicator")
    ELSE IF Get(o, "type", None) = "indicator" THEN <<o>> ELSE <<>>

\* Lines 166-177: the flat record of an indicator.
Normalize(ind, collection_title) ==
  [id |-> ind.id, type |-> ind.type, source |-> collection_title]

\* Lines 160-177 for the indicators of one item.  st = [simple, all] are the
\* two lists of get_indicators.  simple_indicators.append on None raises
\* AttributeError, which the handler of line 179 turns into skipping the
\* rest of the item.
RECURSIVE FormatIndicators(_, _, _)
FormatIndicators(st, inds, title) ==
  IF inds = <<>> THEN st
  ELSE IF st.simple = PyNone THEN st
  ELSE FormatIndicators(
         [st EXCEPT !.simple = JList(st.simple.elems
                                       \o <<Normalize(Head(inds), title)>>)],
         Tail(inds), title)

\* Lines 144-181: the for loop over the items of one page.
RECURSIVE ProcessItems(_, _, _)
ProcessItems(st, its, title) ==
  IF its = <<>> THEN st
  ELSE LET p == Parse(Head(its))
           st1 == IF p = PyNone THEN st
                  ELSE FormatIndicators(st, IndicatorsInItem(p.obj), title)
       IN ProcessItems(st1, Tail(its), title)

\* History: the indicators a page carries, in item order, whatever its shape.
RECURSIVE IndicatorsOfItems(_)
IndicatorsOfItems(its) ==
  IF its = <<>> THEN <<>>
  ELSE (IF Head(its).wf THEN IndicatorsInItem(Head(its)) ELSE <<>>)
         \o IndicatorsOfItems(Tail(its))

(***************************************************************************)
(* The timestamp fields of a record.  Text is a sequence of characters.    *)
(* An attribute of a parsed STIX object is absent, None, a datetime (the   *)
(* properties the library types: valid_from, created, modified) or the     *)
(* JSON string of a custom property (last_seen, kept as it was received).  *)
(***************************************************************************)
Digits == <<"0", "1", "2", "3", "4", "5", "6", "7", "8", "9">>

RECURSIVE Pow10(_)
Pow10(n) == IF n = 0 THEN 1 ELSE 10 * Pow10(n - 1)

\* %Y, %m, %d, %H, %M, %S: the number in w digits, zero-padded.
Pad(n, w) == [i \in 1..w |-> Digits[((n \div Pow10(w - i)) % 10) + 1]]

\* strftime('%Y-%m-%d %H:%M:%S')
Strftime(t) ==
  Pad(t.year, 4) \o <<"-">> \o Pad(t.month, 2) \o <<"-">> \o Pad(t.day, 2)
    \o <<" ">> \o Pad(t.hour, 2) \o <<":">> \o Pad(t.minute, 2)
    \o <<":">> \o Pad(t.second, 2)

Datetime(y, mo, d, h, mi, sec) ==
  [tag |-> "datetime", year |-> y, month |-> mo, day |-> d, hour |-> h,
   minute |-> mi, second |-> sec]
Str(chars) == [tag |-> "str", chars |-> chars]

Datetimes == {Datetime(2024, 1, 5, 0, 7, 9), Datetime(1999, 12, 31, 23, 59, 58)}
Strings ==
  {Str(<<>>),
   Str(<<"2", "0", "2", "4", "-", "0", "1", "-", "0", "5", "T",
         "0", "0", ":", "0", "7", ":", "0", "9", "Z">>)}

TimestampAttrs == {"valid_from", "last_seen", "created", "modified"}
AttrValues(k) ==
  IF k = "last_seen" THEN {PyNone} \cup Strings ELSE {PyNone} \cup Datetimes

StixObjects ==
  {o \in UNION {[S -> {PyNone} \cup Datetimes \cup Strings]
                  : S \in SUBSET TimestampAttrs} :
     \A k \in DOMAIN o : o[k] \in AttrValues(k)}

\* hasattr(ind, k) and ind.k
HasTruthy(ind, k) ==
  /\ k \in DOMAIN ind
  /\ ind[k] # PyNone
  /\ ind[k].tag = "str" => ind[k].chars # <<>>

\* A str has no strftime: the attribute lookup raises AttributeError.
CanStrftime(v) == v.tag = "datetime"

\* Lines 172-175 of the batch path.
FormatTimestamps(ind) ==
  IF \E k \in TimestampAttrs : HasTruthy(ind, k) /\ ~CanStrftime(ind[k])
    THEN [kind |-> "raised", exc |-> "AttributeError"]
    ELSE [kind |-> "record",
          first_seen |-> IF HasTruthy(ind, "valid_from")
                           THEN Strftime(ind["valid_from"])
                           ELSE <<"N", "/", "A">>,
          last_seen |-> IF HasTruthy(ind, "last_seen")
                          THEN Strftime(ind["last_seen"])
                          ELSE <<"N", "/", "A">>,
          created |-> IF HasTruthy(ind, "created")
                        THEN Strftime(ind["created"]) ELSE <<>>,
          modified |-> IF HasTruthy(ind, "modified")
                         THEN Strftime(ind["modified"]) ELSE <<>>]

\* Lines 273-276 of the detail path.
DetailTimestamps(target_indicator) ==
  IF \E k \in TimestampAttrs :
        HasTruthy(target_indicator, k) /\ ~CanStrftime(target_indicator[k])
    THEN [kind |-> "raised", exc |-> "AttributeError"]
    ELSE [kind |-> "record",
          first_seen |-> IF HasTruthy(target_indicator, "valid_from")
                           THEN Strftime(target_indicator["valid_from"])
                           ELSE <<"N", "/", "A">>,
          last_seen |-> IF HasTruthy(target_indicator, "last_seen")
                          THEN Strftime(target_indicator["last_seen"])
                          ELSE <<"N", "/", "A">>,
          created |-> IF HasTruthy(target_indicator, "created")
                        THEN Strftime(target_indicator["created"]) ELSE <<>>,
          modified |-> IF HasTruthy(target_indicator, "modified")
                         THEN Strftime(target_indicator["modified"]) ELSE <<>>]

\* indicators.json as an earlier run of the application left it.
Earlier(s) == [tag |-> "earlier", elems |-> s]

\* No fixed server: every request is answered afresh.
NoUpstream == [listing |-> [kind |-> "none"], pages |-> <<>>]

(***************************************************************************)
(* Initial state: no feed is configured (the feed file is created empty);  *)
(* indicators.json is empty or still holds what an earlier run left.       *)
(***************************************************************************)
Init ==
  /\ feeds = <<>>
  /\ store \in {<<>>, <<StaleRecord>>}
  /\ pc = "idle"
  /\ r_feeds = <<>>
  /\ r_idx = 1
  /\ all_indicators = <<>>
  /\ errors = <<>>
  /\ result = PyNone
  /\ collection_id = None
  /\ page = 1
  /\ more = TRUE
  /\ simple_indicators = PyNone
  /\ all_simple_indicators = JList(<<>>)
  /\ reply = [kind |-> "none"]
  /\ iterated = <<>>
  /\ requests = <<>>
  /\ raised = NoExc
  /\ returned = PyNone
  /\ served = <<>>
  /\ expected = <<>>
  /\ failed = <<>>
  /\ last_call = [op |-> "none"]
  /\ fetched = <<>>
  /\ written = Earlier(store)
  /\ written_before = PyNone
  /\ upstream = NoUpstream
  /\ n_in = PyNone
  /\ n_out = PyNone

(***************************************************************************)
(* The locals of a handler do not outlive it: a handler starts with the    *)
(* locals of the client and of refresh_feeds in their initial values.      *)
(***************************************************************************)
FreshClient ==
  /\ collection_id' = None
  /\ page' = 1
  /\ more' = TRUE
  /\ simple_indicators' = PyNone
  /\ all_simple_indicators' = JList(<<>>)
  /\ reply' = [kind |-> "none"]
  /\ iterated' = <<>>
  /\ requests' = <<>>
  /\ raised' = NoExc
  /\ returned' = PyNone
  /\ served' = <<>>

FreshRefresh ==
  /\ r_feeds' = <<>>
  /\ r_idx' = 1
  /\ all_indicators' = <<>>
  /\ errors' = <<>>
  /\ expected' = <<>>
  /\ failed' = <<>>
  /\ fetched' = <<>>

\* redirect(url_for('index'))
Redirect == [redirect |-> "index"]

(***************************************************************************)
(* app.py add_feed: the form without url or collection is dropped,         *)
(* otherwise the feed is appended to the persisted list.                   *)
(***************************************************************************)
AddFeed(name, url, collection, cap) ==
  /\ pc = "idle"
  /\ Len(feeds) < cap
  /\ IF url = <<>> \/ collection = ""
       THEN feeds' = feeds
       ELSE feeds' = Append(feeds,
              [name |-> IF name = None THEN "Untitled Feed" ELSE name,
               url |-> RStripSlash(url),
               collection |-> collection])
  /\ last_call' = [op |-> "add_feed"]
  /\ result' = Redirect
  /\ FreshClient
  /\ FreshRefresh
  /\ UNCHANGED <<store, pc, historyVars, fixedVars>>

(***************************************************************************)
(* app.py delete_feed: feed_id is a 0-based position.                      *)
(***************************************************************************)
PopFirst(s, i) == Tail(s)
Pop(s, i) == SubSeq(s, 1, i) \o SubSeq(s, i + 2, Len(s))

DeleteFeedPurging(feed_id) ==
  /\ pc = "idle"
  /\ IF 0 <= feed_id /\ feed_id < Len(feeds)
       THEN /\ feeds' = Pop(feeds, feed_id)
            /\ store' = SelectSeq(store, LAMBDA rec :
                           rec.feed_source # feeds[feed_id + 1].name)
       ELSE feeds' = feeds /\ store' = store
  /\ last_call' = [op |-> "delete_feed", feed_id |-> feed_id, before |-> feeds]
  /\ result' = Redirect
  /\ FreshClient
  /\ FreshRefresh
  /\ UNCHANGED <<pc, historyVars, fixedVars>>
DeleteFeed(feed_id) ==
  /\ pc = "idle"
  /\ IF 0 <= feed_id /\ feed_id < Len(feeds)
       THEN feeds' = Pop(feeds, feed_id)
       ELSE feeds' = feeds
  /\ last_call' = [op |-> "delete_feed", feed_id |-> feed_id, before |-> feeds]
  /\ result' = Redirect
  /\ FreshClient
  /\ FreshRefresh
  /\ UNCHANGED <<store, pc, historyVars, fixedVars>>

(***************************************************************************)
(* taxii_client.py get_indicator_by_id: [ret, exc] for the reply to the    *)
(* collections request and the reply to the object request.  Everything    *)
(* after the resolver runs inside one try whose handlers all return None.  *)
(* Of the record, value, description and raw are left out.                 *)
(***************************************************************************)
FirstObject(envelope) ==
  LET objects_list == Get(envelope, "objects", <<>>)
  IN IF objects_list # <<>> /\ IsList(objects_list[1])
       THEN IF objects_list[1].elems # <<>> THEN objects_list[1].elems[1]
            ELSE PyNone
       ELSE IF objects_list # <<>> THEN objects_list[1] ELSE PyNone

\* Lines 251-259: the indicator with the id asked for.
TargetIndicator(o, indicator_id) ==
  LET hits == IF o.type = "bundle"
                THEN SelectSeq(o.objects, LAMBDA x :
                       x.id = indicator_id /\ x.type = "indicator")
                ELSE IF o.id = indicator_id /\ o.type = "indicator"
                       THEN <<o>> ELSE <<>>
  IN IF hits = <<>> THEN PyNone ELSE hits[1]

get_indicator_by_id(api_root_url, collection_title, indicator_id, listing, r) ==
  LET none == [ret |-> PyNone, exc |-> NoExc]
      res == get_collection_id_by_title(api_root_url, collection_title, listing)
  IN IF api_root_url = <<>> \/ collection_title = "" THEN none
     ELSE IF res.exc # NoExc THEN [ret |-> PyNone, exc |-> res.exc]
     ELSE IF Falsy(res.ret) THEN none
     ELSE IF r.kind # "ok" THEN none
     ELSE LET stix_item == FirstObject(r.envelope)
              stix_object == IF stix_item = PyNone THEN PyNone
                             ELSE Parse(stix_item)
              target_indicator ==
                IF stix_object = PyNone THEN PyNone
                ELSE TargetIndicator(stix_object.obj, indicator_id)
              ts == IF target_indicator = PyNone THEN PyNone
                    ELSE DetailTimestamps(target_indicator)
          IN IF ts = PyNone \/ ts.kind = "raised" THEN none
             ELSE [ret |-> [id |-> target_indicator.id,
                            type |-> target_indicator.type,
                            first_seen |-> ts.first_seen,
                            last_seen |-> ts.last_seen,
                            created |-> ts.created,
                            modified |-> ts.modified,
                            source |-> collection_title],
                   exc |-> NoExc]

(***************************************************************************)
(* app.py indicator_details: the feeds are asked in list order until one   *)
(* has the indicator; a feed whose lookup raises is passed over.  The      *)
(* feeds of the model name one API root and one collection, and the        *)
(* server's two replies stand for the whole handler.                       *)
(***************************************************************************)
RECURSIVE FoundIndicator(_, _, _, _)
FoundIndicator(fs, indicator_id, listing, r) ==
  IF fs = <<>> THEN PyNone
  ELSE LET feed == Head(fs)
           got == get_indicator_by_id(RStripSlash(feed.url), feed.collection,
                                      indicator_id, listing, r)
       IN IF got.exc = NoExc /\ got.ret # PyNone THEN got.ret
          ELSE FoundIndicator(Tail(fs), indicator_id, listing, r)

IndicatorDetails(indicator_id, listing, r) ==
  LET found_indicator == FoundIndicator(feeds, indicator_id, listing, r)
  IN /\ pc = "idle"
     /\ result' = IF found_indicator # PyNone
                    THEN [success |-> TRUE, indicator |-> found_indicator]
                    ELSE [success |-> FALSE, error |-> "not found"]
     /\ last_call' = [op |-> "indicator_details"]
     /\ FreshClient
     /\ FreshRefresh
     /\ UNCHANGED <<feeds, store, pc, historyVars, fixedVars>>

(***************************************************************************)
(* app.py search: the records that hold the lower-cased query in their     *)
(* value, description, type or feed_source are rendered.  The records of   *)
(* the model have no value and no description.                             *)
(***************************************************************************)
\* The characters of the strings the records hold.
TextOf(str) ==
  CASE str = "indicator" -> <<"i", "n", "d", "i", "c", "a", "t", "o", "r">>
    [] str = "A" -> <<"A">>
    [] str = "B" -> <<"B">>
    [] OTHER -> <<str>>

\* str.lower()
Lower(text) ==
  [i \in 1..Len(text) |->
     CASE text[i] = "A" -> "a" [] text[i] = "B" -> "b" [] text[i] = "I" -> "i"
       [] OTHER -> text[i]]

\* query in text
Contains(text, query) ==
  \E i \in 0..(Len(text) - Len(query)) :
     SubSeq(text, i + 1, i + Len(query)) = query

Matches(indicator, query) ==
  \/ Contains(<<>>, query)
  \/ Contains(Lower(TextOf(Get(indicator, "type", ""))), query)
  \/ Contains(Lower(TextOf(Get(indicator, "feed_source", ""))), query)

Queries == {<<>>, <<"A">>, <<"i", "n">>, <<"z">>}

Search(q) ==
  LET query == Lower(q)
      indicators == IF query # <<>>
                      THEN SelectSeq(store, LAMBDA rec : Matches(rec, query))
                      ELSE store
  IN /\ pc = "idle"
     /\ result' = [template |-> "index.html", feeds |-> feeds,
                   indicators |-> indicators, search_query |-> query]
     /\ last_call' = [op |-> "search"]
     /\ FreshClient
     /\ FreshRefresh
     /\ UNCHANGED <<feeds, store, pc, historyVars, fixedVars>>

(***************************************************************************)
(* app.py refresh_feeds.                                                   *)
(***************************************************************************)
\* Lines 254-255: feed_source is set on every record of the feed.
TagFeed(records, feed_name) ==
  [i \in 1..Len(records) |->
     [id |-> records[i].id, type |-> records[i].type,
      source |-> records[i].source, feed_source |-> feed_name]]

\* Lines 267-270: the JSON answer.
Answer(all, errs) ==
  IF errs # <<>>
    THEN [success |-> FALSE, count |-> Len(all), errors |-> errs]
    ELSE [success |-> TRUE, count |-> Len(all)]

\* The rest of the for loop body after the client call of the current feed,
\* and, after the last feed, lines 264-270: save_indicators and the answer.
NextFeed(newAll, newErrors, newExpected, failure) ==
  /\ failed' = IF failure THEN Append(failed, r_feeds[r_idx].name) ELSE failed
  /\ UNCHANGED <<last_call, fixedVars>>
  /\ all_indicators' = newAll
  /\ errors' = newErrors
  /\ expected' = newExpected
  /\ r_idx' = r_idx + 1
  /\ UNCHANGED <<feeds, r_feeds>>
  /\ IF r_idx + 1 > Len(r_feeds)
       THEN /\ store' = newAll
            /\ written' = JList(newAll)
            /\ written_before' = written
            /\ result' = Answer(newAll, newErrors)
            /\ pc' = "idle"
       ELSE /\ UNCHANGED <<store, result, historyVars>>
            /\ pc' = "resolve"

\* get_indicators returned the list ret (lines 252-257).
ClientReturned(ret, newServed, failure) ==
  LET feed_name == r_feeds[r_idx].name
      title == r_feeds[r_idx].collection
  IN /\ returned' = JList(ret)
     /\ raised' = NoExc
     /\ NextFeed(all_indicators \o TagFeed(ret, feed_name), errors,
                 expected \o TagFeed([i \in 1..Len(newServed) |->
                                        Normalize(newServed[i], title)], feed_name),
                 failure)

\* An exception left get_indicators (lines 258-261).
ClientRaisedAbort(exc, failure) ==
  /\ returned' = PyNone
  /\ raised' = exc
  /\ failed' = IF failure THEN Append(failed, r_feeds[r_idx].name) ELSE failed
  /\ r_idx' = r_idx + 1
  /\ result' = [status |-> 500]
  /\ pc' = "idle"
  /\ UNCHANGED <<feeds, store, r_feeds, all_indicators, errors, expected,
                 last_call, historyVars, fixedVars>>
ClientRaisedKeepOld(exc, failure) ==
  /\ returned' = PyNone
  /\ raised' = exc
  /\ NextFeed(all_indicators
                \o SelectSeq(store, LAMBDA rec :
                               rec.feed_source = r_feeds[r_idx].name),
              Append(errors, [feed |-> r_feeds[r_idx].name, exc |-> exc]),
              expected, failure)
ClientRaised(exc, failure) ==
  /\ returned' = PyNone
  /\ raised' = exc
  /\ NextFeed(all_indicators,
              Append(errors, [feed |-> r_feeds[r_idx].name, exc |-> exc]),
              expected, failure)

\* Lines 234-239, and lines 264-270 when no feed is configured.
RefreshStart ==
  /\ pc = "idle"
  /\ r_feeds' = feeds
  /\ r_idx' = 1
  /\ all_indicators' = <<>>
  /\ errors' = <<>>
  /\ expected' = <<>>
  /\ failed' = <<>>
  /\ last_call' = [op |-> "refresh_feeds"]
  /\ IF feeds = <<>>
       THEN /\ store' = <<>>
            /\ written' = JList(<<>>)
            /\ written_before' = written
            /\ result' = Answer(<<>>, <<>>)
            /\ pc' = "idle"
       ELSE /\ UNCHANGED <<store, historyVars>>
            /\ result' = PyNone
            /\ pc' = "resolve"
  /\ fetched' = <<>>
  /\ FreshClient
  /\ UNCHANGED <<feeds, fixedVars>>

\* History: the collections request failed (network failure, non-success
\* HTTP status, or a body that is no JSON or no list).
ListingFailed(r) == r.kind # "ok" \/ ~IsList(r.body)

(***************************************************************************)
(* taxii_client.py get_indicators, first request: the client is built for  *)
(* the current feed (app.py lines 245-251), the collection is resolved     *)
(* (lines 102-109) and the paging loop is entered (lines 111-114).         *)
(***************************************************************************)
Resolve(r) ==
  LET feed == r_feeds[r_idx]
      api_root_url == RStripSlash(feed.url)
      collection_title == feed.collection
      configured == api_root_url # <<>> /\ collection_title # ""
      res == get_collection_id_by_title(api_root_url, collection_title, r)
  IN /\ pc = "resolve"
     /\ fetched' = Append(fetched, feed)
     /\ simple_indicators' = PyNone
     /\ all_simple_indicators' = JList(<<>>)
     /\ served' = <<>>
     /\ iterated' = <<>>
     /\ page' = 1
     /\ more' = TRUE
     /\ IF ~configured
          THEN /\ UNCHANGED reply
               /\ requests' = <<>>
               /\ collection_id' = None
               /\ ClientReturned(<<>>, <<>>, FALSE)
          ELSE /\ reply' = r
               /\ requests' = <<"collections">>
               /\ collection_id' = res.ret
               /\ IF res.exc # NoExc THEN ClientRaised(res.exc, ListingFailed(r))
                  ELSE IF Falsy(res.ret)
                         THEN ClientReturned(<<>>, <<>>, ListingFailed(r))
                  ELSE /\ returned' = PyNone
                       /\ raised' = NoExc
                       /\ pc' = "paging"
                       /\ UNCHANGED <<feeds, store, r_feeds, r_idx,
                                      all_indicators, errors, result, expected,
                                      failed, last_call, historyVars,
                                      fixedVars>>

(***************************************************************************)
(* taxii_client.py get_indicators, one turn of the while loop (lines       *)
(* 118-206) and, when the loop ends, the return of line 210.               *)
(***************************************************************************)
\* The server has no page after MaxPages: it answers with an empty page.
EmptyPage ==
  [kind |-> "ok", envelope |-> [more |-> FALSE, objects |-> <<>>],
   items |-> <<>>, shape |-> "flat"]

\* more after a page whose items were processed (line 184).
MoreAlways(envelope) == TRUE
MoreOf(envelope) == Get(envelope, "more", FALSE)

\* Line 188: the page requested after page p.
NextPageSame(p) == p
NextPage(p) == p + 1

\* Whether the handler of line 190 finds `response` bound: only a page
\* request that got a response binds it.
ResponseBound(p) == p > 1

PageStep(r) ==
  LET title == r_feeds[r_idx].collection
      st0 == [simple |-> simple_indicators, all |-> all_simple_indicators]
      objs == Unwrap(r.envelope)
      st1 == ProcessItems(st0, objs, title)
  IN /\ pc = "paging"
     /\ more
     /\ reply' = r
     /\ requests' = Append(requests, page)
     /\ UNCHANGED <<collection_id, fetched>>
     /\ IF r.kind = "neterr" /\ ~ResponseBound(page)
          THEN \* line 193 raises UnboundLocalError inside the handler
               /\ UNCHANGED <<page, more, simple_indicators,
                              all_simple_indicators, iterated, served>>
               /\ ClientRaised(UnboundLocalError, TRUE)
          ELSE IF r.kind # "ok"
          THEN \* lines 190-206: more = False, then line 210
               /\ more' = FALSE
               /\ UNCHANGED <<page, simple_indicators, all_simple_indicators,
                              iterated, served>>
               /\ ClientReturned(all_simple_indicators.elems, served, TRUE)
          ELSE IF objs = <<>>
          THEN \* lines 137-140
               /\ more' = FALSE
               /\ iterated' = <<>>
               /\ UNCHANGED <<page, simple_indicators, all_simple_indicators,
                              served>>
               /\ ClientReturned(all_simple_indicators.elems, served, FALSE)
          ELSE /\ iterated' = objs
               /\ simple_indicators' = st1.simple
               /\ all_simple_indicators' = st1.all
               /\ served' = served \o IndicatorsOfItems(r.items)
               /\ more' = MoreOf(r.envelope)
               /\ IF MoreOf(r.envelope)
                    THEN /\ page' = NextPage(page)
                         /\ returned' = PyNone
                         /\ raised' = NoExc
                         /\ UNCHANGED <<feeds, store, refreshVars, last_call,
                                        historyVars, fixedVars>>
                    ELSE /\ UNCHANGED page
                         /\ ClientReturned(st1.all.elems,
                                           served \o IndicatorsOfItems(r.items),
                                           FALSE)

\* The replies a server gives to the request for page p: any reply of
\* `first` for page 1, any of `later` up to page MaxPages.
RepliesAt(first, later, p) ==
  IF p = 1 THEN first ELSE IF p <= MaxPages THEN later ELSE {EmptyPage}

(***************************************************************************)
(* The application: feeds are added and deleted and refreshed.  The feeds  *)
(* serve flat pages of one kind of indicator, and at most MaxRefreshed     *)
(* feeds are configured.                                                   *)
(***************************************************************************)
\* The positions a delete request can name.
FeedIds == -1..(MaxFeeds + 1)

AppListingReplies == ListingRepliesOf(1)
AppPageReplies == PageRepliesOf(SeqsUpTo({Ind("i1")}, 1), {"flat"})

Next ==
  \/ \E name \in NameInputs, url \in UrlInputs, collection \in TitleInputs :
        AddFeed(name, url, collection, MaxRefreshed)
  \/ \E feed_id \in FeedIds : DeleteFeed(feed_id)
  \/ RefreshStart
  \/ \E r \in AppListingReplies : Resolve(r)
  \/ \E r \in RepliesAt(AppPageReplies, AppPageReplies, page) : PageStep(r)

Spec == Init /\ [][Next]_vars

(***************************************************************************)
(* One configured feed, refreshed against every server of the bounds.      *)
(***************************************************************************)
InitFetch ==
  /\ feeds = <<[name |-> "A", url |-> <<"u">>, collection |-> "T"]>>
  /\ store = <<>>
  /\ pc = "idle"
  /\ r_feeds = <<>>
  /\ r_idx = 1
  /\ all_indicators = <<>>
  /\ errors = <<>>
  /\ result = PyNone
  /\ collection_id = None
  /\ page = 1
  /\ more = TRUE
  /\ simple_indicators = PyNone
  /\ all_simple_indicators = JList(<<>>)
  /\ reply = [kind |-> "none"]
  /\ iterated = <<>>
  /\ requests = <<>>
  /\ raised = NoExc
  /\ returned = PyNone
  /\ served = <<>>
  /\ expected = <<>>
  /\ failed = <<>>
  /\ last_call = [op |-> "none"]
  /\ fetched = <<>>
  /\ written = Earlier(store)
  /\ written_before = PyNone
  /\ upstream = NoUpstream
  /\ n_in = PyNone
  /\ n_out = PyNone

NextFetch ==
  \/ RefreshStart
  \/ \E r \in ListingReplies : Resolve(r)
  \/ \E r \in RepliesAt(PageReplies, LaterPageReplies, page) : PageStep(r)

SpecFetch == InitFetch /\ [][NextFetch]_vars

(***************************************************************************)
(* Refreshes in a row against a server whose answers do not change: the    *)
(* feed list is fixed, and each request gets the reply that upstream holds *)
(* for it.  Every feed of the model names the same API root and the same   *)
(* collection, so upstream is one listing and one sequence of pages.       *)
(***************************************************************************)
HandlersIdle ==
  /\ pc = "idle"
  /\ r_feeds = <<>>
  /\ r_idx = 1
  /\ all_indicators = <<>>
  /\ errors = <<>>
  /\ result = PyNone
  /\ collection_id = None
  /\ page = 1
  /\ more = TRUE
  /\ simple_indicators = PyNone
  /\ all_simple_indicators = JList(<<>>)
  /\ reply = [kind |-> "none"]
  /\ iterated = <<>>
  /\ requests = <<>>
  /\ raised = NoExc
  /\ returned = PyNone
  /\ served = <<>>
  /\ expected = <<>>
  /\ failed = <<>>
  /\ last_call = [op |-> "none"]
  /\ fetched = <<>>
  /\ written = Earlier(store)
  /\ written_before = PyNone

FeedLists(n) ==
  UNION {[1..k -> {[name |-> nm, url |-> <<"u">>, collection |-> "T"]
                     : nm \in FeedNames}] : k \in 1..n}

UpstreamListings ==
  {r \in AppListingReplies :
     \/ r.kind \in {"neterr", "http_err"}
     \/ r.kind = "ok" /\ IsList(r.body) /\ Len(r.body.elems) = 1
          /\ r.body.elems[1].id = "c1"}

UpstreamPages ==
  {r \in AppPageReplies :
     \/ r.kind \in {"neterr", "http_err"}
     \/ r.kind = "ok" /\ DOMAIN r.envelope = {"more", "objects"}}

Upstreams ==
  [listing : UpstreamListings, pages : [1..MaxPages -> UpstreamPages]]

UpstreamPage(p) ==
  IF p <= Len(upstream.pages) THEN upstream.pages[p] ELSE EmptyPage

InitTwice ==
  /\ feeds \in FeedLists(MaxRefreshed)
  /\ store \in {<<>>, <<StaleRecord>>}
  /\ HandlersIdle
  /\ upstream \in Upstreams
  /\ n_in = PyNone
  /\ n_out = PyNone

NextTwice ==
  \/ RefreshStart
  \/ Resolve(upstream.listing)
  \/ PageStep(UpstreamPage(page))

SpecTwice == InitTwice /\ [][NextTwice]_vars

(***************************************************************************)
(* The five handlers that read or write the two files, against servers of  *)
(* one page: feeds are added, deleted and refreshed, the store is searched *)
(* and an indicator is looked up.                                          *)
(***************************************************************************)
\* Replies of the object endpoint: the code reads the objects field alone.
DetailReplies ==
  {[kind |-> k] : k \in {"neterr", "http_err", "undecodable", "bad_shape"}}
    \cup {[kind |-> "ok", envelope |-> [objects |-> Encode(its, sh)]]
            : its \in SeqsUpTo({Ind("i1"), Ind("i2"),
                                BundleOf(<<Other, Ind("i1")>>)}, 1),
              sh \in {"flat", "wrapAll"}}

NextStore ==
  \/ \E name \in NameInputs, url \in UrlInputs, collection \in TitleInputs :
        AddFeed(name, url, collection, MaxRefreshed)
  \/ \E feed_id \in FeedIds : DeleteFeed(feed_id)
  \/ \E q \in Queries : Search(q)
  \/ \E listing \in UpstreamListings, r \in DetailReplies :
        IndicatorDetails("i1", listing, r)
  \/ RefreshStart
  \/ \E r \in UpstreamListings : Resolve(r)
  \/ \E r \in RepliesAt(UpstreamPages, {EmptyPage}, page) : PageStep(r)

SpecStore == Init /\ [][NextStore]_vars

(***************************************************************************)
(* Feed management alone: up to MaxFeeds feeds are added and deleted.      *)
(***************************************************************************)
NextFeeds ==
  \/ \E name \in NameInputs, url \in UrlInputs, collection \in TitleInputs :
        AddFeed(name, url, collection, MaxFeeds)
  \/ \E feed_id \in FeedIds : DeleteFeed(feed_id)

SpecFeeds == Init /\ [][NextFeeds]_vars

\* The two paths format every object of the bounds.
InitNormalize ==
  /\ feeds = <<>>
  /\ store = <<>>
  /\ HandlersIdle
  /\ upstream = NoUpstream
  /\ n_in \in [path : {"batch", "detail"}, obj : StixObjects]
  /\ n_out = PyNone

FormatBatch ==
  /\ n_out = PyNone
  /\ n_in.path = "batch"
  /\ n_out' = FormatTimestamps(n_in.obj)
  /\ UNCHANGED <<feeds, store, clientVars, refreshVars, historyVars,
                 last_call, fetched, upstream, n_in>>

FormatDetail ==
  /\ n_out = PyNone
  /\ n_in.path = "detail"
  /\ n_out' = DetailTimestamps(n_in.obj)
  /\ UNCHANGED <<feeds, store, clientVars, refreshVars, historyVars,
                 last_call, fetched, upstream, n_in>>

NextNormalize == FormatBatch \/ FormatDetail

SpecNormalize == InitNormalize /\ [][NextNormalize]_vars

(***************************************************************************)
(* Vocabulary of the properties.                                           *)
(***************************************************************************)
\* A get_indicators call has issued a request and has returned.
CallReturned == requests # <<>> /\ returned # PyNone

\* The feed of the call in progress or, when it is over, of the last call.
CallFeed == IF pc = "paging" THEN r_feeds[r_idx] ELSE r_feeds[r_idx - 1]

\* The last reply is the one to the collections request / to a page request.
AtListing == requests = <<"collections">>
AtPage == Len(requests) >= 2
PageOk == AtPage /\ reply.kind = "ok"

\* What the claims expect of the indicators received so far.
ServedRecords ==
  [i \in 1..Len(served) |-> Normalize(served[i], CallFeed.collection)]

\* refresh_feeds has answered.
RefreshOver == last_call.op = "refresh_feeds" /\ pc = "idle"

TypeOK == pc \in {"idle", "resolve", "paging"}

(***************************************************************************)
(* C1.  For a collection that resolves and whose every page request        *)
(* succeeds, get_indicators() returns exactly one normalized record for    *)
(* every indicator served, standalone or inside a Bundle, in page order    *)
(* then item order.  The code returns all_simple_indicators, to which      *)
(* nothing is ever appended: the property is violated.                     *)
(***************************************************************************)
C1_ReturnsServedIndicators ==
  (CallReturned /\ PageOk) => returned.elems = ServedRecords

(***************************************************************************)
(* C2.  The error list of refresh_feeds has exactly one entry, naming the  *)
(* feed, for each feed whose fetch hit a failed request, and none for the  *)
(* other feeds.  The client swallows the failures it catches, so that most *)
(* failed feeds leave no entry: the property is violated.                  *)
(***************************************************************************)
ErrorFeeds ==
  LET errs == Get(result, "errors", <<>>)
  IN [i \in 1..Len(errs) |-> errs[i].feed]

C2_ErrorPerFailedFeed == RefreshOver => ErrorFeeds = failed

(***************************************************************************)
(* C3.  After refresh_feeds the store is the concatenation, in feed-list   *)
(* order, of the records of the indicators each feed served, each with     *)
(* feed_source set to its feed's name, and the count answered is the       *)
(* number of records stored.  The store is empty whatever the feeds        *)
(* served: the property is violated.                                       *)
(***************************************************************************)
C3_StoreIsWhatFeedsServed ==
  RefreshOver => (store = expected /\ result.count = Len(store))

(***************************************************************************)
(* C4.  The paging loop stops after the first page whose envelope has      *)
(* more = false or no more field, and on a page whose objects are empty    *)
(* even when more = true: after such a page the call has returned and that *)
(* page is the last one requested.                                         *)
(***************************************************************************)
LastPage ==
  \/ "more" \notin DOMAIN reply.envelope
  \/ ~reply.envelope.more
  \/ "objects" \notin DOMAIN reply.envelope
  \/ reply.envelope.objects = <<>>

C4_PagingStops ==
  (PageOk /\ LastPage) =>
     /\ pc # "paging"
     /\ returned # PyNone
     /\ requests[Len(requests)] = page
     /\ Len(requests) = page + 1

C4_Witness ==
  /\ PageOk /\ page = 2 /\ returned # PyNone
  /\ "more" \in DOMAIN reply.envelope /\ reply.envelope.more
  /\ "objects" \in DOMAIN reply.envelope /\ reply.envelope.objects = <<>>
  /\ requests = <<"collections", 1, 2>>

(***************************************************************************)
(* C5.  When the request for page k fails (network error, non-success      *)
(* HTTP status, undecodable envelope) get_indicators issues no further     *)
(* request and returns the records of pages 1..k-1, without raising.  The  *)
(* code returns an empty list, and raises when page 1 has a network        *)
(* error: the property is violated.                                        *)
(***************************************************************************)
C5_FailedPageKeepsRecords ==
  (AtPage /\ reply.kind \in {"neterr", "http_err", "undecodable"}) =>
     /\ raised = NoExc
     /\ returned # PyNone
     /\ returned.elems = ServedRecords
     /\ requests[Len(requests)] = page

(***************************************************************************)
(* C6.  For a listing that is a sequence of descriptors, the collection id *)
(* resolved is the id of the first descriptor, in listing order, whose     *)
(* title equals the requested title exactly, also when later descriptors   *)
(* carry the same title.                                                   *)
(***************************************************************************)
C6_FirstMatchWins ==
  (AtListing /\ reply.kind = "ok" /\ IsList(reply.body)) =>
     \A i \in 1..Len(reply.body.elems) :
        ( /\ reply.body.elems[i].title = CallFeed.collection
          /\ \A j \in 1..(i - 1) :
                reply.body.elems[j].title # CallFeed.collection )
        => (collection_id = reply.body.elems[i].id /\ raised = NoExc)

C6_Witness ==
  /\ AtListing /\ reply.kind = "ok" /\ IsList(reply.body)
  /\ Len(reply.body.elems) = 2
  /\ reply.body.elems[1].title = CallFeed.collection
  /\ reply.body.elems[2].title = CallFeed.collection
  /\ reply.body.elems[1].id # reply.body.elems[2].id
  /\ collection_id = reply.body.elems[1].id

(***************************************************************************)
(* C7.  The resolver signals not-found, and raises nothing, when the       *)
(* listing is an empty sequence, the body is not a sequence, no descriptor *)
(* has the requested title, the HTTP status is a failure or the body       *)
(* cannot be decoded.                                                      *)
(***************************************************************************)
NotFoundCase ==
  \/ reply.kind \in {"http_err", "undecodable"}
  \/ /\ reply.kind = "ok"
     /\ \/ ~IsList(reply.body)
        \/ \A i \in 1..Len(reply.body.elems) :
              reply.body.elems[i].title # CallFeed.collection

C7_NotFoundNeverRaises ==
  (AtListing /\ NotFoundCase) =>
     (collection_id = None /\ raised = NoExc /\ returned = JList(<<>>))

C7_Witness ==
  /\ AtListing /\ reply.kind = "http_err"
  /\ collection_id = None /\ raised = NoExc /\ returned = JList(<<>>)

(***************************************************************************)
(* C8.  Original statement: the items of a page are all processed,         *)
(* whichever way the objects field wraps them: flat [i1, i2, ...], one     *)
(* wrapper [[i1, i2, ...]] or a wrapper each [[i1], [i2], ...].            *)
(***************************************************************************)
PageItems == [i \in 1..Len(reply.items) |-> JObj(reply.items[i])]

C8_EveryShapeUnwrapped ==
  (PageOk /\ "items" \in DOMAIN reply) => iterated = PageItems

(***************************************************************************)
(* C8, amended.  The items processed, and the list returned, are the same  *)
(* for the flat page [i1, i2, ...] and for the page with one wrapper       *)
(* [[i1, i2, ...]]; of a page with a wrapper each, [[i1], [i2], ...], only *)
(* the content of the first wrapper is processed.                          *)
(***************************************************************************)
C8_FlatAndOneWrapperAgree ==
  (PageOk /\ "items" \in DOMAIN reply) =>
     /\ reply.shape \in {"flat", "wrapAll"} => iterated = PageItems
     /\ reply.shape = "wrapEach" =>
          iterated = IF reply.items = <<>> THEN <<>> ELSE <<PageItems[1]>>

C8_Witness ==
  /\ PageOk /\ "items" \in DOMAIN reply
  /\ reply.shape = "wrapAll"
  /\ Len(reply.items) = 2
  /\ iterated = PageItems

(***************************************************************************)
(* C9.  An item that fails to parse is skipped alone: the other items of   *)
(* its page still contribute their indicators, the more flag of the page   *)
(* is honoured and nothing is raised.  No item contributes a record: the   *)
(* property is violated.                                                   *)
(***************************************************************************)
HasBadItem == \E i \in 1..Len(reply.items) : ~reply.items[i].wf

C9_BadItemSkippedAlone ==
  (PageOk /\ "items" \in DOMAIN reply /\ reply.shape = "flat" /\ HasBadItem) =>
     /\ raised = NoExc
     /\ all_simple_indicators.elems = ServedRecords
     /\ (pc = "paging") = (~LastPage)

(***************************************************************************)
(* C10.  delete_feed(i) with 0 <= i < len(feeds) removes exactly the entry *)
(* at position i and keeps the others in their order; with i out of range  *)
(* the feed list is unchanged.                                             *)
(***************************************************************************)
C10_DeleteRemovesOne ==
  last_call.op = "delete_feed" =>
    LET before == last_call.before
        i == last_call.feed_id
    IN IF 0 <= i /\ i < Len(before)
         THEN /\ Len(feeds) = Len(before) - 1
              /\ \A j \in 1..Len(feeds) :
                    feeds[j] = IF j <= i THEN before[j] ELSE before[j + 1]
         ELSE feeds = before

C10_Witness ==
  /\ last_call.op = "delete_feed"
  /\ last_call.feed_id = 1
  /\ Len(last_call.before) = 3
  /\ last_call.before[1].name # last_call.before[3].name
  /\ feeds = <<last_call.before[1], last_call.before[3]>>

(***************************************************************************)
(* C11: refresh_feeds goes through the feeds one at a time in the order of *)
(* the persisted list; an exception of one feed's client call is caught    *)
(* and recorded as an error entry of that feed, every later feed is still  *)
(* fetched, the store is still written and the answer carries a count.     *)
(***************************************************************************)
C11_ErrorsNeverAbort ==
  /\ last_call.op = "refresh_feeds" =>
        /\ Len(fetched) = (IF pc = "paging" THEN r_idx ELSE r_idx - 1)
        /\ fetched = SubSeq(r_feeds, 1, Len(fetched))
        /\ r_feeds = feeds
  /\ raised # NoExc =>
        /\ pc \in {"resolve", "idle"}
        /\ errors # <<>>
        /\ errors[Len(errors)] = [feed |-> CallFeed.name, exc |-> raised]
  /\ RefreshOver =>
        /\ fetched = feeds
        /\ store = all_indicators
        /\ written = JList(all_indicators)
        /\ "count" \in DOMAIN result
        /\ result.count = Len(store)

C11_Witness ==
  /\ RefreshOver
  /\ Len(feeds) = 2
  /\ feeds[1].name # feeds[2].name
  /\ fetched = feeds
  /\ errors = <<[feed |-> feeds[1].name, exc |-> UnboundLocalError]>>
  /\ raised = NoExc
  /\ result = [success |-> FALSE, count |-> 0, errors |-> errors]

(***************************************************************************)
(* C12: with the feed list and the server's answers unchanged, a refresh   *)
(* that follows a refresh leaves in the store what the first one left.     *)
(***************************************************************************)
C12_SecondRefreshSameStore ==
  (RefreshOver /\ written_before # PyNone /\ IsList(written_before)) =>
     store = written_before.elems

C12_Witness ==
  /\ RefreshOver
  /\ written_before # PyNone
  /\ IsList(written_before)
  /\ store = written_before.elems
  /\ Len(feeds) = 2
  /\ expected # <<>>
  /\ errors = <<>>

(***************************************************************************)
(* C13: when the resolver signals not-found, get_indicators returns the    *)
(* empty list without a request to the objects endpoint; the feed adds no  *)
(* indicator and no error, and the refresh goes on to the next feed or,    *)
(* after the last one, writes the store and answers with a count.          *)
(***************************************************************************)
C13_NotFoundStep ==
  (pc = "resolve" /\ collection_id' = None /\ raised' = NoExc) =>
     /\ requests' = <<"collections">>
     /\ returned' = JList(<<>>)
     /\ all_indicators' = all_indicators
     /\ errors' = errors
     /\ r_idx' = r_idx + 1
     /\ IF r_idx < Len(r_feeds)
          THEN pc' = "resolve" /\ store' = store
          ELSE /\ pc' = "idle"
               /\ store' = all_indicators
               /\ result'.count = Len(all_indicators)

C13_NotFoundFetchesNothing ==
  /\ [](collection_id = None => Len(requests) <= 1 /\ pc # "paging")
  /\ [][C13_NotFoundStep]_vars

C13_Witness ==
  /\ pc = "resolve"
  /\ r_idx = 2
  /\ reply.kind = "ok"
  /\ collection_id = None
  /\ raised = NoExc
  /\ returned = JList(<<>>)
  /\ requests = <<"collections">>

(***************************************************************************)
(* C15: within one get_indicators call the collections request comes       *)
(* first and the page requests follow with the numbers 1, 2, 3, ... each   *)
(* once; a page is requested only with the collection id resolved, and a   *)
(* page after the first only when the reply to the page before it was a    *)
(* decoded envelope with a non-empty objects sequence and more = true.     *)
(***************************************************************************)
C15_RequestsInOrder ==
  /\ requests # <<>> => requests[1] = "collections"
  /\ \A i \in 2..Len(requests) : requests[i] = i - 1

C15_PageRequestStep ==
  (requests' # requests /\ Len(requests') >= 2) =>
     /\ pc = "paging"
     /\ collection_id \in CollIds
     /\ requests' = Append(requests, Len(requests))
     /\ Len(requests) >= 2 =>
           /\ reply.kind = "ok"
           /\ DOMAIN reply.envelope = {"more", "objects"}
           /\ reply.envelope.more = TRUE
           /\ reply.envelope.objects # <<>>

C15_PagesOneByOne == []C15_RequestsInOrder /\ [][C15_PageRequestStep]_vars

C15_Witness ==
  /\ requests = <<"collections", 1, 2, 3>>
  /\ collection_id \in CollIds
  /\ returned # PyNone

(***************************************************************************)
(* C14: the formatting of an indicator yields a record in which a          *)
(* timestamp field is its sentinel ("N/A" for first_seen and last_seen,    *)
(* the empty text for created and modified) when the source attribute is   *)
(* absent or None, and is a formatted timestamp, not the sentinel, when    *)
(* the attribute is present; the same on the batch and the detail path.    *)
(* A last_seen that is present arrives as a JSON string: the empty string  *)
(* is rendered as the sentinel, any other makes strftime raise, and no     *)
(* record is made: the property is violated.                               *)
(***************************************************************************)
SourceAttr ==
  [first_seen |-> "valid_from", last_seen |-> "last_seen",
   created |-> "created", modified |-> "modified"]
Sentinel ==
  [first_seen |-> <<"N", "/", "A">>, last_seen |-> <<"N", "/", "A">>,
   created |-> <<>>, modified |-> <<>>]

\* YYYY-MM-DD HH:MM:SS
IsTimestampText(text) ==
  /\ Len(text) = 19
  /\ \A i \in 1..19 :
        IF i \in {5, 8} THEN text[i] = "-"
        ELSE IF i = 11 THEN text[i] = " "
        ELSE IF i \in {14, 17} THEN text[i] = ":"
        ELSE \E d \in 1..10 : text[i] = Digits[d]

C14_TimestampSentinels ==
  n_out # PyNone =>
    /\ n_out.kind = "record"
    /\ \A f \in DOMAIN SourceAttr :
          IF SourceAttr[f] \notin DOMAIN n_in.obj \/ n_in.obj[SourceAttr[f]] = PyNone
            THEN n_out[f] = Sentinel[f]
            ELSE n_out[f] # Sentinel[f] /\ IsTimestampText(n_out[f])

(***************************************************************************)
(* C16: only refresh_feeds writes the indicator store.  add_feed,          *)
(* delete_feed, search and indicator_details leave it as it is, so the     *)
(* store is at all times what was last written to it, also when a feed     *)
(* that records of the store name has been deleted since.                  *)
(***************************************************************************)
C16_OtherHandlersKeepStore ==
  last_call'.op \in {"add_feed", "delete_feed", "search", "indicator_details"}
     => store' = store

C16_OnlyRefreshWrites ==
  [](store = written.elems) /\ [][C16_OtherHandlersKeepStore]_vars

C16_Witness ==
  /\ last_call.op = "delete_feed"
  /\ \E i \in 1..Len(last_call.before) :
        /\ last_call.before[i].name = "A"
        /\ last_call.feed_id = i - 1
  /\ \A i \in 1..Len(feeds) : feeds[i].name # "A"
  /\ store = <<StaleRecord>>
  /\ store = written.elems

====
